---- MODULE Spec2Model ----
(***************************************************************************)
(* The Signup form component of ChessAnalyzer                              *)
(* (frontend/src/components/Signup.jsx).                                   *)
(*                                                                         *)
(* The component keeps one piece of hook state, an object with the keys    *)
(* email, password and name.  Each render captures the current object in   *)
(* the constant `form`; the three onChange handlers and handleSubmit are   *)
(* closures over that constant.  JavaScript objects are references, so the *)
(* model keeps a heap of objects and lets state, form and the arguments    *)
(* given to the sink be references into it.                                *)
(*                                                                         *)
(* Spec      : every event is followed by the re-render it schedules       *)
(*             before the next event is dispatched (user-driven events).   *)
(* SpecBatch : the re-render is a step of its own, so several handlers of  *)
(*             the same render can run before it (batched dispatch).       *)
(***************************************************************************)
EXTENDS Naturals, Sequences, FiniteSets, TLC

\* ---------------------------------------------------------------- bounds
NumTexts == 2
MaxEvents == 4

\* The texts a user can type into a field; the first is the empty string.
Text == <<"", "Ada", "ada@x.com", "hunter2">>
Values == {Text[i] : i \in 1..NumTexts}

\* What JavaScript yields for a property an object does not have.
Undefined == "<undefined>"

Keys == {"email", "password", "name"}

VARIABLES
    heap,         \* the objects allocated so far, by reference
    state,        \* reference held by the useState hook (latest setForm)
    form,         \* reference captured by the closures of the last render
    shown,        \* value prop of each input as of the last render
    sent,         \* references handed to the sink, in order
    navigations,  \* default form navigations the browser has performed
    events,       \* number of events dispatched so far
    sentSnap,     \* history: the values each handed-off object had then
    last,         \* history: the last step taken
    lastVal,      \* history: last value dispatched to each field
    batch         \* history: edits dispatched since the last render

vars == <<heap, state, form, shown, sent, navigations, events,
          sentSnap, last, lastVal, batch>>

\* ---------------------------------------------------------------- objects
\* obj.k
Get(obj, k) == IF k \in DOMAIN obj THEN obj[k] ELSE Undefined

\* useState({ email: '', password: '', name: '' })
initialForm == [email |-> "", password |-> "", name |-> ""]

\* (variant) the password input bound to form.email
DisplayPasswordShowsEmail(obj) ==
    [k \in Keys |-> IF k = "password" THEN Get(obj, "email") ELSE Get(obj, k)]

\* value={form.name}, value={form.email}, value={form.password}
Display(obj) ==
    [k \in Keys |-> Get(obj, k)]

\* ---------------------------------------------------------------- handlers
\* A handler is described by what it does to the heap and which reference
\* it passes to setForm.

\* (variant) the name handler writes the email key
onChangeNameWrongKey(v) ==
    [heap  |-> Append(heap, ("email" :> v) @@ heap[form]),
     state |-> Len(heap) + 1]

\* (variant) the name handler assigns form.name in place and re-sets form
onChangeNameInPlace(v) ==
    [heap  |-> [heap EXCEPT ![form] = ("name" :> v) @@ @],
     state |-> form]

\* (e) => setForm({ ...form, name: e.target.value })
onChangeName(v) ==
    [heap  |-> Append(heap, ("name" :> v) @@ heap[form]),
     state |-> Len(heap) + 1]

\* (variant) the email handler without the spread: setForm({ email: v })
onChangeEmailNoSpread(v) ==
    [heap  |-> Append(heap, "email" :> v),
     state |-> Len(heap) + 1]

\* (variant) the email handler as a functional update of the hook's latest
\* object: setForm(f => ({ ...f, email: v }))
onChangeEmailLatest(v) ==
    [heap  |-> Append(heap, ("email" :> v) @@ heap[state]),
     state |-> Len(heap) + 1]

\* (e) => setForm({ ...form, email: e.target.value })
onChangeEmail(v) ==
    [heap  |-> Append(heap, ("email" :> v) @@ heap[form]),
     state |-> Len(heap) + 1]

\* (variant) the password handler also moves the old password into name
onChangePasswordShifts(v) ==
    [heap  |-> Append(heap, ("password" :> v)
                              @@ ("name" :> Get(heap[form], "password"))
                              @@ heap[form]),
     state |-> Len(heap) + 1]

\* (e) => setForm({ ...form, password: e.target.value })
onChangePassword(v) ==
    [heap  |-> Append(heap, ("password" :> v) @@ heap[form]),
     state |-> Len(heap) + 1]

\* (variant) handleSubmit without the hand-off
handleSubmitNoSend(throws) ==
    [prevented |-> TRUE, calls |-> <<>>]

\* (variant) handleSubmit that logs first and prevents the default after
handleSubmitLogFirst(throws) ==
    LET afterLog == [prevented |-> FALSE, calls |-> <<form>>]
    IN  IF throws THEN afterLog ELSE [afterLog EXCEPT !.prevented = TRUE]

\* (variant) handleSubmit without e.preventDefault()
handleSubmitNoPrevent(throws) ==
    [prevented |-> FALSE, calls |-> <<form>>]

\* handleSubmit: e.preventDefault(); console.log('Signing up with:', form).
\* The sink is called with the captured reference; when it throws, the rest
\* of the handler (nothing, here) is skipped.
handleSubmit(throws) ==
    LET afterPrevent == [prevented |-> TRUE, calls |-> <<>>]
        afterLog     == [afterPrevent EXCEPT !.calls = Append(@, form)]
    IN  afterLog

\* ---------------------------------------------------------------- runtime
NoStep ==
    [kind |-> "none", field |-> "", value |-> "", threw |-> FALSE,
     repeat |-> FALSE]

Init ==
    /\ heap = <<initialForm>>
    /\ state = 1
    /\ form = 1
    /\ shown = Display(initialForm)
    /\ sent = <<>>
    /\ navigations = 0
    /\ events = 0
    /\ sentSnap = <<>>
    /\ last = NoStep
    /\ lastVal = [k \in Keys |-> ""]
    /\ batch = <<>>

\* An input's change event: the handler runs, the hook takes the reference
\* given to setForm, and (flush) the component re-renders before the next
\* event, capturing the new object and displaying its fields.
Change(k, v, r, flush) ==
    /\ events < MaxEvents
    /\ events' = events + 1
    /\ heap' = r.heap
    /\ state' = r.state
    /\ form' = IF flush THEN r.state ELSE form
    /\ shown' = IF flush THEN Display(r.heap[r.state]) ELSE shown
    /\ last' = [kind |-> "edit", field |-> k, value |-> v, threw |-> FALSE,
                 repeat |-> (last.kind = "edit" /\ last.field = k
                             /\ last.value = v)]
    /\ lastVal' = [lastVal EXCEPT ![k] = v]
    /\ batch' = IF flush THEN <<>> ELSE Append(batch, [field |-> k, value |-> v])
    /\ UNCHANGED <<sent, sentSnap, navigations>>

ChangeName(v, flush) == Change("name", v, onChangeName(v), flush)

ChangeEmail(v, flush) == Change("email", v, onChangeEmail(v), flush)

ChangePassword(v, flush) == Change("password", v, onChangePassword(v), flush)

\* The form's submit event: handleSubmit runs; then the browser performs the
\* default action (a navigation that reloads the page and remounts the
\* component) unless the handler prevented it.
Submit(throws) ==
    LET r == handleSubmit(throws) IN
    /\ events < MaxEvents
    /\ events' = events + 1
    /\ sent' = sent \o r.calls
    /\ sentSnap' = sentSnap \o [i \in 1..Len(r.calls) |-> heap[r.calls[i]]]
    /\ last' = [NoStep EXCEPT !.kind = "submit", !.threw = throws]
    /\ IF r.prevented
         THEN UNCHANGED <<heap, state, form, shown, navigations, batch>>
         ELSE /\ navigations' = navigations + 1
              /\ heap' = Append(heap, initialForm)
              /\ state' = Len(heap) + 1
              /\ form' = Len(heap) + 1
              /\ shown' = Display(initialForm)
              /\ batch' = <<>>
    /\ UNCHANGED lastVal

\* The re-render of a batched dispatch: the component function runs again,
\* `form` becomes the hook's current object and the inputs show its fields.
Render ==
    /\ state # form
    /\ form' = state
    /\ shown' = Display(heap[state])
    /\ batch' = <<>>
    /\ last' = [NoStep EXCEPT !.kind = "render"]
    /\ UNCHANGED <<heap, state, sent, sentSnap, navigations, events, lastVal>>

Next ==
    \/ \E v \in Values : ChangeName(v, TRUE)
    \/ \E v \in Values : ChangeEmail(v, TRUE)
    \/ \E v \in Values : ChangePassword(v, TRUE)
    \/ \E t \in BOOLEAN : Submit(t)

Spec == Init /\ [][Next]_vars

NextBatch ==
    \/ \E v \in Values : ChangeName(v, FALSE)
    \/ \E v \in Values : ChangeEmail(v, FALSE)
    \/ \E v \in Values : ChangePassword(v, FALSE)
    \/ \E t \in BOOLEAN : Submit(t)
    \/ Render

SpecBatch == Init /\ [][NextBatch]_vars

\* The values of the hook's current object and of the captured object.
FormState == heap[state]
Captured == heap[form]

TypeOK ==
    /\ state \in 1..Len(heap)
    /\ form \in 1..Len(heap)
    /\ \A i \in 1..Len(sent) : sent[i] \in 1..Len(heap)
    /\ Len(sentSnap) = Len(sent)
    /\ navigations \in Nat
    /\ events \in 0..MaxEvents

\* ---------------------------------------------------------------- claims
\* The field values of the hook's object after a step.
FormStateAfter == heap'[state']

\* obj is old with exactly the field k replaced by v.
Replaced(obj, old, k, v) ==
    \A j \in Keys : Get(obj, j) = IF j = k THEN v ELSE Get(old, j)

\* C1: an edit (f, v) leaves field f equal to v and each of the other two
\* fields equal to its value immediately before the edit.
C1_EditSetsOnlyItsField ==
    [][\A v \in Values :
          /\ ChangeName(v, TRUE)
                => Replaced(FormStateAfter, FormState, "name", v)
          /\ ChangeEmail(v, TRUE)
                => Replaced(FormStateAfter, FormState, "email", v)
          /\ ChangePassword(v, TRUE)
                => Replaced(FormStateAfter, FormState, "password", v)]_vars

\* A name edit has just been applied on top of an earlier email edit.
C1_Witness ==
    /\ last.kind = "edit" /\ last.field = "name" /\ last.value = Text[2]
    /\ Get(FormState, "name") = Text[2]
    /\ Get(FormState, "email") = Text[2]
    /\ Get(FormState, "password") = ""

\* C2: every submit makes exactly one hand-off, whose payload is the
\* FormState that results from all edits dispatched before it; an edit
\* makes no hand-off.
C2_OneHandOffOfCurrentState ==
    [][/\ \A t \in BOOLEAN :
            Submit(t) =>
              /\ Len(sent') = Len(sent) + 1
              /\ SubSeq(sent', 1, Len(sent)) = sent
              /\ heap'[sent'[Len(sent')]] = FormState
              /\ \A k \in Keys : Get(heap'[sent'[Len(sent')]], k) = lastVal[k]
       /\ \A v \in Values :
            (ChangeName(v, TRUE) \/ ChangeEmail(v, TRUE) \/ ChangePassword(v, TRUE))
              => sent' = sent]_vars

\* A submit after two edits handed off the record holding both.
C2_Witness ==
    /\ last.kind = "submit"
    /\ Len(sent) = 1
    /\ Get(heap[sent[1]], "name") = Text[2]
    /\ Get(heap[sent[1]], "email") = Text[2]
    /\ events = 3

\* C3: no submit, in any FormState and whether or not the hand-off throws,
\* leaves the default action unprevented; no navigation ever occurs.
C3_DefaultAlwaysPrevented ==
    /\ navigations = 0
    /\ last.kind = "submit" => handleSubmit(last.threw).prevented

\* A submit of the all-empty form whose hand-off threw.
C3_Witness ==
    /\ last.kind = "submit" /\ last.threw
    /\ FormState = initialForm
    /\ Len(sent) = 1
    /\ navigations = 0

\* C4: every record handed off still has the values it had when it was
\* handed off, whatever edits followed.
C4_HandedOffNeverChanges ==
    \A i \in 1..Len(sent) : heap[sent[i]] = sentSnap[i]

\* An edit after a submit made FormState differ from the handed-off record.
C4_Witness ==
    /\ Len(sent) = 1
    /\ last.kind = "edit" /\ last.field = "name"
    /\ heap[sent[1]] = sentSnap[1]
    /\ Get(FormState, "name") # Get(sentSnap[1], "name")

\* C5: FormState starts all-empty, always has a string for each of name,
\* email and password, and each input displays its FormState value.
C5_ControlledInputs ==
    /\ events = 0 => \A k \in Keys : Get(FormState, k) = ""
    /\ \A k \in Keys :
          /\ k \in DOMAIN FormState
          /\ FormState[k] \in Values
          /\ shown[k] = FormState[k]

\* The password input displays a typed value while email holds another.
C5_Witness ==
    /\ last.kind = "edit"
    /\ shown["password"] = Text[2]
    /\ Get(FormState, "password") = Text[2]
    /\ Get(FormState, "email") = ""
    /\ shown["email"] = ""

\* The step repeats the edit (k, v) that the previous step applied.
RepeatOf(k, v) ==
    last.kind = "edit" /\ last.field = k /\ last.value = v

\* C6: applying the same edit a second time in a row leaves the three field
\* values as they were after the first application.
C6_EditIdempotent ==
    [][\A v \in Values :
          /\ (RepeatOf("name", v) /\ ChangeName(v, TRUE))
                => FormStateAfter = FormState
          /\ (RepeatOf("email", v) /\ ChangeEmail(v, TRUE))
                => FormStateAfter = FormState
          /\ (RepeatOf("password", v) /\ ChangePassword(v, TRUE))
                => FormStateAfter = FormState]_vars

\* The password edit was applied twice in a row on a form with a name.
C6_Witness ==
    /\ last.kind = "edit" /\ last.repeat
    /\ last.field = "password" /\ last.value = Text[2]
    /\ Get(FormState, "password") = Text[2]
    /\ Get(FormState, "name") = Text[2]

\* C7: a submit changes neither FormState nor what is rendered, and while
\* the event bound is not reached every edit and the submit stay enabled.
C7_SubmitKeepsEditing ==
    /\ [][\A t \in BOOLEAN :
            Submit(t) =>
              /\ state' = state /\ FormStateAfter = FormState
              /\ form' = form /\ shown' = shown
              /\ navigations' = navigations]_vars
    /\ [](events < MaxEvents =>
            /\ ENABLED Submit(FALSE)
            /\ \A v \in Values :
                  /\ ENABLED ChangeName(v, TRUE)
                  /\ ENABLED ChangeEmail(v, TRUE)
                  /\ ENABLED ChangePassword(v, TRUE))

\* Two submits have been made and the typed name is still there.
C7_Witness ==
    /\ Len(sent) = 2
    /\ last.kind = "submit"
    /\ Get(FormState, "name") = Text[2]
    /\ shown["name"] = Text[2]
    /\ events < MaxEvents

\* C9: with every event applied before the next, FormState holds for each
\* field the value of the last edit dispatched to it, or "" if none was.
C9_LastEditWins ==
    \A k \in Keys : Get(FormState, k) = lastVal[k]

\* Edits to all three fields, interleaved with a submit, are all kept.
C9_Witness ==
    /\ lastVal = [email |-> Text[2], password |-> Text[2], name |-> Text[2]]
    /\ Len(sent) = 1
    /\ FormState = lastVal

\* The edit last dispatched against the current render.
LastOfBatch == batch[Len(batch)]

\* C10: handlers use the object captured at the last render: after edits
\* dispatched against one render FormState is the captured object with only
\* the last edit's field replaced, and a submit hands off the captured
\* object.
C10_HandlersUseCapturedForm ==
    /\ batch # <<>>
          => Replaced(FormState, Captured, LastOfBatch.field, LastOfBatch.value)
    /\ (last.kind = "submit" /\ sent # <<>>)
          => /\ sent[Len(sent)] = form
             /\ sentSnap[Len(sent)] = Captured

\* Two edits to different fields against one render, then a submit: the
\* first edit is lost and the hand-off carries neither.
C10_Witness ==
    /\ Len(batch) = 2
    /\ batch[1].field # batch[2].field
    /\ batch[1].value # Get(Captured, batch[1].field)
    /\ Get(FormState, batch[1].field) = Get(Captured, batch[1].field)
    /\ Get(FormState, batch[2].field) = batch[2].value
    /\ last.kind = "submit"
    /\ sentSnap[Len(sent)] # FormState

\* FormState has exactly the keys email, password and name.
KeysFixed == DOMAIN FormState = Keys
====
